---- MODULE Spec2Model ----
\* A model of src/main.py: the two feed fetchers, the aggregation in main
\* (extend, sort, "remove duplicants"), generate_html and the report write.
\*
\* Text is a sequence of one-character strings; the fixed pieces of the HTML
\* template and of the URLs are single multi-character strings, so they can
\* never be confused with a character that came from a feed.
EXTENDS Integers, Sequences, FiniteSets, TLC

VARIABLES
    pc,                 \* position of main / of the running fetcher
    publication_date,   \* main: the "%Y-%m-%d" text of today (New York)
    categories,         \* main: the arXiv category list
    subjects,           \* main: the bioRxiv subject list
    papers,             \* main: the list `papers`
    entries,            \* fetcher: feed.entries of the feed being iterated
    idx,                \* fetcher: 1-based position of the for loop in entries
    fpapers,            \* fetcher: its local list `papers`
    requests,           \* environment: the URLs handed to feedparser.parse
    bozo,               \* environment: sources whose retrieval failed inside feedparser
    html_content,       \* main: the rendered document (<<>> before rendering)
    report,             \* environment: the content of report.html
    error               \* the exception that ended the run ("none" while running)

vars == <<pc, publication_date, categories, subjects, papers, entries, idx,
          fpapers, requests, bozo, html_content, report, error>>

----------------------------------------------------------------------------
\* Bounds

\* Longest feed (number of entries) a source returns
MaxFeedLen == 2

----------------------------------------------------------------------------
\* Text helpers (Python str operations)

Whitespace == {" ", "\n", "\t"}

Digits == {"0", "1", "2", "3", "4", "5", "6", "7", "8", "9"}

DigitVal(c) ==
    CASE c = "0" -> 0 [] c = "1" -> 1 [] c = "2" -> 2 [] c = "3" -> 3
      [] c = "4" -> 4 [] c = "5" -> 5 [] c = "6" -> 6 [] c = "7" -> 7
      [] c = "8" -> 8 [] c = "9" -> 9

DigitChar(n) ==
    CASE n = 0 -> "0" [] n = 1 -> "1" [] n = 2 -> "2" [] n = 3 -> "3"
      [] n = 4 -> "4" [] n = 5 -> "5" [] n = 6 -> "6" [] n = 7 -> "7"
      [] n = 8 -> "8" [] n = 9 -> "9"

\* str.strip(): drop leading and trailing whitespace
RECURSIVE lstrip(_)
lstrip(s) ==
    IF s # <<>> /\ Head(s) \in Whitespace THEN lstrip(Tail(s)) ELSE s

RECURSIVE rstrip(_)
rstrip(s) ==
    IF s # <<>> /\ s[Len(s)] \in Whitespace
    THEN rstrip(SubSeq(s, 1, Len(s) - 1))
    ELSE s

strip(s) == rstrip(lstrip(s))

\* sep.join(parts): parts is a sequence of texts, sep a text
RECURSIVE join(_, _)
join(sep, parts) ==
    IF parts = <<>> THEN <<>>
    ELSE IF Len(parts) = 1 THEN parts[1]
    ELSE parts[1] \o sep \o join(sep, Tail(parts))

\* s.split(c): the pieces of s between occurrences of character c
RECURSIVE split(_, _)
split(s, c) ==
    IF \A k \in 1..Len(s) : s[k] # c THEN <<s>>
    ELSE LET p == CHOOSE k \in 1..Len(s) : s[k] = c /\ \A j \in 1..(k - 1) : s[j] # c
         IN  <<SubSeq(s, 1, p - 1)>> \o split(SubSeq(s, p + 1, Len(s)), c)

----------------------------------------------------------------------------
\* Dates (datetime.date) and their text forms

\* value of a text of decimal digits
RECURSIVE int(_)
int(s) ==
    IF s = <<>> THEN 0 ELSE 10 * int(SubSeq(s, 1, Len(s) - 1)) + DigitVal(s[Len(s)])

IsDigits(s) == \A k \in 1..Len(s) : s[k] \in Digits

IsLeap(y) == (y % 4 = 0 /\ y % 100 # 0) \/ y % 400 = 0

DaysInMonth(y, m) ==
    IF m = 2 THEN (IF IsLeap(y) THEN 29 ELSE 28)
    ELSE IF m \in {4, 6, 9, 11} THEN 30 ELSE 31

\* datetime.datetime.strptime(s, "%Y-%m-%d").date(): %Y is four digits, %m and
\* %d are one or two digits; anything else, or an impossible date, raises
\* ValueError (ok = FALSE).
strptime(s) ==
    LET parts == split(s, "-")
        wellFormed ==
            /\ Len(parts) = 3
            /\ Len(parts[1]) = 4 /\ IsDigits(parts[1])
            /\ Len(parts[2]) \in {1, 2} /\ IsDigits(parts[2])
            /\ Len(parts[3]) \in {1, 2} /\ IsDigits(parts[3])
            /\ int(parts[1]) >= 1
            /\ int(parts[2]) \in 1..12
            /\ int(parts[3]) \in 1..DaysInMonth(int(parts[1]), int(parts[2]))
    IN  IF wellFormed
        THEN [ok |-> TRUE,
              date |-> [year |-> int(parts[1]), month |-> int(parts[2]),
                        day |-> int(parts[3])]]
        ELSE [ok |-> FALSE]

\* n written in decimal, zero-padded to width w
RECURSIVE zfill(_, _)
zfill(n, w) ==
    IF w = 0 THEN <<>> ELSE zfill(n \div 10, w - 1) \o <<DigitChar(n % 10)>>

\* date.strftime("%Y-%m-%d") and str(date): YYYY-MM-DD
strftime(d) ==
    zfill(d.year, 4) \o <<"-">> \o zfill(d.month, 2) \o <<"-">> \o zfill(d.day, 2)

\* date < date (the sort key order)
DateLess(a, b) ==
    \/ a.year < b.year
    \/ a.year = b.year /\ a.month < b.month
    \/ a.year = b.year /\ a.month = b.month /\ a.day < b.day

----------------------------------------------------------------------------
\* Inputs: today's date, the configured lists, and what the feeds hold

D1 == [year |-> 2025, month |-> 4, day |-> 1]
D2 == [year |-> 2025, month |-> 4, day |-> 2]

\* datetime.now(New York).date(): the days a run may happen on
Today == {D1, D2}

\* main's category and subject lists, each identifier one piece of text; the
\* empty list is the configuration the `if categories:` guard exists for
ArxivCategories == <<<<"physics.bio-ph">>, <<"physics.chem-ph">>, <<"cs.AI">>, <<"cs.LG">>>>
BiorxivSubjects == <<<<"bioinformatics">>, <<"biophysics">>>>

CategoryLists == {<<>>, ArxivCategories}
SubjectLists == {<<>>, BiorxivSubjects}

\* `updated` texts: an Atom timestamp, a bare date, a date without zero
\* padding, and text that is no date
TimeOfDay == <<"T", "0", "0", ":", "0", "0", "Z">>
NotADate == <<"T", "u", "e">>
Unpadded(d) == <<"2", "0", "2", "5", "-", DigitChar(d.month), "-", DigitChar(d.day)>>

\* A feed entry is a dictionary: a key the feed did not give is absent from
\* its domain, and reading it raises AttributeError.
FullEntry(updated, title, names, summary, link) ==
    [updated |-> updated, title |-> title,
     authors |-> [k \in 1..Len(names) |-> [name |-> names[k]]],
     summary |-> summary, link |-> link]

Without(entry, key) == [k \in (DOMAIN entry) \ {key} |-> entry[k]]

GoodEntries ==
    { FullEntry(strftime(D1) \o TimeOfDay, <<" ", "A", " ">>, <<<<"X">>, <<"Y">>>>,
                <<" ", "s", "\n">>, <<"u", "1">>),
      FullEntry(strftime(D1), <<"<", "&">>, <<<<"Z">>>>, <<"t", " ">>, <<"u", "2">>),
      FullEntry(strftime(D2), <<"B">>, <<>>, <<>>, <<"u", "3">>),
      FullEntry(Unpadded(D1), <<"A">>, <<<<"X">>>>, <<"&">>, <<"u", "4">>) }

BadDateEntries ==
    { FullEntry(NotADate, <<"C">>, <<<<"X">>>>, <<"s">>, <<"u", "5">>) }

MissingFieldEntries ==
    LET e(d) == FullEntry(strftime(d), <<"M">>, <<<<"X">>>>, <<"s">>, <<"u", "6">>)
    IN  { Without(e(d), k) :
            d \in Today, k \in {"updated", "title", "authors", "summary", "link"} }

Entries == GoodEntries \cup BadDateEntries \cup MissingFieldEntries

Feeds == UNION { [1..n -> Entries] : n \in 0..MaxFeedLen }

\* Content of report.html left by an earlier run
OldReport == <<"report of an earlier run">>

----------------------------------------------------------------------------
\* The fetchers, one entry at a time

ArxivBase == "https://rss.arxiv.org/atom/"
BiorxivBase == "http://connect.biorxiv.org/biorxiv_xml.php?subject="

CommaSpace == <<",", " ">>

\* What one iteration of the for loop does with an entry
Raise(exc) == [kind |-> "raise", exc |-> exc]
Skip == [kind |-> "skip"]
Keep(rec) == [kind |-> "keep", rec |-> rec]

\* fields read inside `if submission_date == target_date:`
ReadWhenKept == {"title", "authors", "summary", "link"}

author_names(entry) == [k \in 1..Len(entry.authors) |-> entry.authors[k].name]

\* Variant of arxiv_record that strips the abstract as the bioRxiv fetcher does
arxiv_record_stripped(entry, category, target_date) ==
    [title |-> strip(entry.title),
     category |-> category,
     authors |-> join(CommaSpace, author_names(entry)),
     datetime |-> target_date,
     abstract |-> strip(entry.summary),
     url |-> entry.link]

arxiv_record(entry, category, target_date) ==
    [title |-> strip(entry.title),
     category |-> category,
     authors |-> join(CommaSpace, author_names(entry)),
     datetime |-> target_date,
     abstract |-> entry.summary,
     url |-> entry.link]

biorxiv_record(entry, category, target_date) ==
    [title |-> strip(entry.title),
     category |-> category,
     authors |-> join(CommaSpace, author_names(entry)),
     datetime |-> target_date,
     abstract |-> strip(entry.summary),
     url |-> entry.link]

arxiv_submission_date(entry) == strptime(split(entry.updated, "T")[1])

biorxiv_submission_date(entry) == strptime(entry.updated)

\* Variant of fetch_arxiv_entry without the date comparison
fetch_arxiv_entry_any_date(entry, category, target_date) ==
    IF "updated" \notin DOMAIN entry THEN Raise("AttributeError")
    ELSE LET parsed == arxiv_submission_date(entry)
         IN  IF ~parsed.ok THEN Raise("ValueError")
             ELSE IF ~(ReadWhenKept \subseteq DOMAIN entry) THEN Raise("AttributeError")
             ELSE Keep(arxiv_record(entry, category, target_date))

fetch_arxiv_entry(entry, category, target_date) ==
    IF "updated" \notin DOMAIN entry THEN Raise("AttributeError")
    ELSE LET parsed == arxiv_submission_date(entry)
         IN  IF ~parsed.ok THEN Raise("ValueError")
             ELSE IF parsed.date # target_date THEN Skip
             ELSE IF ~(ReadWhenKept \subseteq DOMAIN entry) THEN Raise("AttributeError")
             ELSE Keep(arxiv_record(entry, category, target_date))

fetch_biorxiv_entry(entry, category, target_date) ==
    IF "updated" \notin DOMAIN entry THEN Raise("AttributeError")
    ELSE LET parsed == biorxiv_submission_date(entry)
         IN  IF ~parsed.ok THEN Raise("ValueError")
             ELSE IF parsed.date # target_date THEN Skip
             ELSE IF ~(ReadWhenKept \subseteq DOMAIN entry) THEN Raise("AttributeError")
             ELSE Keep(biorxiv_record(entry, category, target_date))

\* target_date = strptime(submitted_date_str, "%Y-%m-%d").date()
target_date_of(submitted_date_str) == strptime(submitted_date_str).date

\* Variant of Truthy: the guard left out
AlwaysTruthy(list) == TRUE

\* `if categories:` / `if subjects:` in main
Truthy(list) == list # <<>>

\* "+".join(categories)
PlusJoin(list) == join(<<"+">>, list)

----------------------------------------------------------------------------
\* Aggregation in main

\* list.sort(key=lambda x: x["datetime"]): a stable sort, so a record is put
\* after every record already placed whose date is not later than its own
RECURSIVE insert_by_date(_, _)
insert_by_date(sorted, rec) ==
    IF sorted = <<>> THEN <<rec>>
    ELSE IF DateLess(rec.datetime, sorted[Len(sorted)].datetime)
         THEN insert_by_date(SubSeq(sorted, 1, Len(sorted) - 1), rec)
              \o <<sorted[Len(sorted)]>>
         ELSE sorted \o <<rec>>

RECURSIVE sort_by_datetime(_)
sort_by_datetime(list) ==
    IF list = <<>> THEN <<>>
    ELSE insert_by_date(sort_by_datetime(SubSeq(list, 1, Len(list) - 1)),
                        list[Len(list)])

\* Variant of titles_of that keys on the title alone: one pair per title, with
\* the index of its first record
titles_by_title(list) ==
    { <<k, list[k].title>> :
        k \in { j \in 1..Len(list) : \A h \in 1..(j - 1) : list[h].title # list[j].title } }

\* titles = set((i, e["title"]) for i, e in enumerate(papers))
titles_of(list) == { <<k, list[k].title>> : k \in 1..Len(list) }

\* The orders in which a set can be iterated: a Python set has no defined
\* order, and with string hashing randomised per process every order of the
\* (index, title) pairs can come out.
RECURSIVE iteration_orders(_)
iteration_orders(S) ==
    IF S = {} THEN {<<>>}
    ELSE UNION { { <<x>> \o rest : rest \in iteration_orders(S \ {x}) } : x \in S }

\* papers = [papers[i] for i, _ in titles], for one iteration order
pick_in_order(list, order) == [k \in 1..Len(order) |-> list[order[k][1]]]

----------------------------------------------------------------------------
\* generate_html

\* The fixed text of the template, each piece with its line breaks and
\* indentation; the style sheet inside <head> is elided from the first piece.
Head_html == "<!DOCTYPE html>\n<html lang=\"en\">\n<head>...<style>...</style>\n</head>\n<body>\n    "
H1_open == "<h1>Preprints: "
H1_close == "</h1>"
Block_open == "\n    <div class=\"preprint\">\n        <div class=\"preprint-title\"><a href=\""
Href_close == "\">"
Title_close == "</a></div>\n        <div class=\"preprint-dates\">"
Dates_close == "</div>\n        <div class=\"preprint-authors\">"
Authors_close == "</div>\n        <div class=\"preprint-abstract\">"
Block_close == "</div>\n    </div>\n        "
Closing_html == "\n</body>\n</html>\n    "

\* Variant of interpolate that escapes as html.escape does
RECURSIVE interpolate_escaped(_)
interpolate_escaped(text) ==
    IF text = <<>> THEN <<>>
    ELSE (CASE Head(text) = "&" -> <<"&", "a", "m", "p", ";">>
            [] Head(text) = "<" -> <<"&", "l", "t", ";">>
            [] Head(text) = ">" -> <<"&", "g", "t", ";">>
            [] OTHER -> <<Head(text)>>)
         \o interpolate_escaped(Tail(text))

\* an f-string field "{value}" of a str: the text itself
interpolate(text) == text

preprint_block(preprint, contents_key) ==
    <<Block_open>> \o interpolate(preprint.url)
    \o <<Href_close>> \o interpolate(preprint.title)
    \o <<Title_close>> \o interpolate(strftime(preprint.datetime))
    \o <<Dates_close>> \o interpolate(preprint.authors)
    \o <<Authors_close>> \o interpolate(preprint[contents_key])
    \o <<Block_close>>

\* Variant of preprint_blocks that emits the blocks last record first
RECURSIVE preprint_blocks_reversed(_, _)
preprint_blocks_reversed(preprints, contents_key) ==
    IF preprints = <<>> THEN <<>>
    ELSE preprint_blocks_reversed(Tail(preprints), contents_key)
         \o preprint_block(Head(preprints), contents_key)

RECURSIVE preprint_blocks(_, _)
preprint_blocks(preprints, contents_key) ==
    IF preprints = <<>> THEN <<>>
    ELSE preprint_block(Head(preprints), contents_key)
         \o preprint_blocks(Tail(preprints), contents_key)

generate_html(preprints, subtitle, contents_key) ==
    <<Head_html>>
    \o <<H1_open>> \o interpolate(subtitle) \o <<H1_close>>
    \o preprint_blocks(preprints, contents_key)
    \o <<Closing_html>>

----------------------------------------------------------------------------
\* The run of main

Init ==
    /\ pc = "arxiv"
    /\ publication_date \in { strftime(d) : d \in Today }
    /\ categories \in CategoryLists
    /\ subjects \in SubjectLists
    /\ papers = <<>>
    /\ entries = <<>>
    /\ idx = 0
    /\ fpapers = <<>>
    /\ requests = <<>>
    /\ bozo = {}
    /\ html_content = <<>>
    /\ report = OldReport
    /\ error = "none"

\* `if categories:` is false: fetch_arxiv_preprints is not called
ArxivSkipped ==
    /\ pc = "arxiv"
    /\ ~Truthy(categories)
    /\ pc' = "biorxiv"
    /\ UNCHANGED <<publication_date, categories, subjects, papers, entries, idx,
                   fpapers, requests, bozo, html_content, report, error>>

\* fetch_arxiv_preprints up to `papers = []`: feedparser.parse(url) returns a feed
ArxivParse ==
    /\ pc = "arxiv"
    /\ Truthy(categories)
    /\ \E feed \in Feeds : entries' = feed
    /\ requests' = Append(requests, <<ArxivBase>> \o PlusJoin(categories))
    /\ idx' = 1
    /\ fpapers' = <<>>
    /\ pc' = "arxiv_loop"
    /\ UNCHANGED <<publication_date, categories, subjects, papers, bozo,
                   html_content, report, error>>

\* feedparser.parse(url) could not retrieve or parse the feed and says so only
\* in the result it returns (bozo set, no entries): nothing is raised, and the
\* fetcher never reads bozo
ArxivParseBozo ==
    /\ pc = "arxiv"
    /\ Truthy(categories)
    /\ entries' = <<>>
    /\ bozo' = bozo \cup {"arxiv"}
    /\ requests' = Append(requests, <<ArxivBase>> \o PlusJoin(categories))
    /\ idx' = 1
    /\ fpapers' = <<>>
    /\ pc' = "arxiv_loop"
    /\ UNCHANGED <<publication_date, categories, subjects, papers,
                   html_content, report, error>>

\* an exception leaves feedparser.parse(url): nothing in main catches it
ArxivParseRaises ==
    /\ pc = "arxiv"
    /\ Truthy(categories)
    /\ requests' = Append(requests, <<ArxivBase>> \o PlusJoin(categories))
    /\ pc' = "aborted"
    /\ error' = "FetchError"
    /\ UNCHANGED <<publication_date, categories, subjects, papers, entries, idx,
                   fpapers, bozo, html_content, report>>

\* one iteration of `for entry in feed.entries:` in fetch_arxiv_preprints
ArxivEntry ==
    /\ pc = "arxiv_loop"
    /\ idx <= Len(entries)
    /\ LET out == fetch_arxiv_entry(entries[idx], PlusJoin(categories),
                                    target_date_of(publication_date))
       IN  CASE out.kind = "raise" ->
                  /\ pc' = "aborted"
                  /\ error' = out.exc
                  /\ UNCHANGED <<idx, fpapers>>
             [] out.kind = "skip" ->
                  /\ idx' = idx + 1
                  /\ UNCHANGED <<pc, error, fpapers>>
             [] out.kind = "keep" ->
                  /\ idx' = idx + 1
                  /\ fpapers' = Append(fpapers, out.rec)
                  /\ UNCHANGED <<pc, error>>
    /\ UNCHANGED <<publication_date, categories, subjects, papers, entries,
                   requests, bozo, html_content, report>>

\* `return papers` and, in main, papers.extend(new_papers)
ArxivReturn ==
    /\ pc = "arxiv_loop"
    /\ idx > Len(entries)
    /\ papers' = papers \o fpapers
    /\ entries' = <<>>
    /\ idx' = 0
    /\ fpapers' = <<>>
    /\ pc' = "biorxiv"
    /\ UNCHANGED <<publication_date, categories, subjects, requests, bozo,
                   html_content, report, error>>

\* `if subjects:` is false: fetch_biorxiv_preprints is not called
BiorxivSkipped ==
    /\ pc = "biorxiv"
    /\ ~Truthy(subjects)
    /\ pc' = "sort"
    /\ UNCHANGED <<publication_date, categories, subjects, papers, entries, idx,
                   fpapers, requests, bozo, html_content, report, error>>

BiorxivParse ==
    /\ pc = "biorxiv"
    /\ Truthy(subjects)
    /\ \E feed \in Feeds : entries' = feed
    /\ requests' = Append(requests, <<BiorxivBase>> \o PlusJoin(subjects))
    /\ idx' = 1
    /\ fpapers' = <<>>
    /\ pc' = "biorxiv_loop"
    /\ UNCHANGED <<publication_date, categories, subjects, papers, bozo,
                   html_content, report, error>>

BiorxivParseBozo ==
    /\ pc = "biorxiv"
    /\ Truthy(subjects)
    /\ entries' = <<>>
    /\ bozo' = bozo \cup {"biorxiv"}
    /\ requests' = Append(requests, <<BiorxivBase>> \o PlusJoin(subjects))
    /\ idx' = 1
    /\ fpapers' = <<>>
    /\ pc' = "biorxiv_loop"
    /\ UNCHANGED <<publication_date, categories, subjects, papers,
                   html_content, report, error>>

BiorxivParseRaises ==
    /\ pc = "biorxiv"
    /\ Truthy(subjects)
    /\ requests' = Append(requests, <<BiorxivBase>> \o PlusJoin(subjects))
    /\ pc' = "aborted"
    /\ error' = "FetchError"
    /\ UNCHANGED <<publication_date, categories, subjects, papers, entries, idx,
                   fpapers, bozo, html_content, report>>

\* one iteration of `for entry in feed.entries:` in fetch_biorxiv_preprints
BiorxivEntry ==
    /\ pc = "biorxiv_loop"
    /\ idx <= Len(entries)
    /\ LET out == fetch_biorxiv_entry(entries[idx], PlusJoin(subjects),
                                      target_date_of(publication_date))
       IN  CASE out.kind = "raise" ->
                  /\ pc' = "aborted"
                  /\ error' = out.exc
                  /\ UNCHANGED <<idx, fpapers>>
             [] out.kind = "skip" ->
                  /\ idx' = idx + 1
                  /\ UNCHANGED <<pc, error, fpapers>>
             [] out.kind = "keep" ->
                  /\ idx' = idx + 1
                  /\ fpapers' = Append(fpapers, out.rec)
                  /\ UNCHANGED <<pc, error>>
    /\ UNCHANGED <<publication_date, categories, subjects, papers, entries,
                   requests, bozo, html_content, report>>

BiorxivReturn ==
    /\ pc = "biorxiv_loop"
    /\ idx > Len(entries)
    /\ papers' = papers \o fpapers
    /\ entries' = <<>>
    /\ idx' = 0
    /\ fpapers' = <<>>
    /\ pc' = "sort"
    /\ UNCHANGED <<publication_date, categories, subjects, requests, bozo,
                   html_content, report, error>>

\* papers.sort(key=lambda x: x["datetime"])
SortPapers ==
    /\ pc = "sort"
    /\ papers' = sort_by_datetime(papers)
    /\ pc' = "dedup"
    /\ UNCHANGED <<publication_date, categories, subjects, entries, idx, fpapers,
                   requests, bozo, html_content, report, error>>

\* "Remove duplicants": the set of (index, title) pairs, then the list rebuilt
\* in the set's iteration order
RemoveDuplicants ==
    /\ pc = "dedup"
    /\ \E order \in iteration_orders(titles_of(papers)) :
          papers' = pick_in_order(papers, order)
    /\ pc' = "render"
    /\ UNCHANGED <<publication_date, categories, subjects, entries, idx, fpapers,
                   requests, bozo, html_content, report, error>>

\* Variant of GenerateHtml with the last two stages swapped: the file is
\* written from html_content before generate_html has filled it
GenerateHtml_after_write ==
    /\ pc = "render"
    /\ report' = html_content
    /\ html_content' = generate_html(papers, join(CommaSpace, categories \o subjects),
                                     "abstract")
    /\ pc' = "done"
    /\ UNCHANGED <<publication_date, categories, subjects, papers, entries, idx,
                   fpapers, requests, bozo, error>>

\* html_content = generate_html(papers, contents_key="abstract", subtitle=...)
GenerateHtml ==
    /\ pc = "render"
    /\ html_content' = generate_html(papers, join(CommaSpace, categories \o subjects),
                                     "abstract")
    /\ pc' = "write"
    /\ UNCHANGED <<publication_date, categories, subjects, papers, entries, idx,
                   fpapers, requests, bozo, report, error>>

\* with open("report.html", "w") as file: file.write(html_content)
WriteReport ==
    /\ pc = "write"
    /\ report' = html_content
    /\ pc' = "done"
    /\ UNCHANGED <<publication_date, categories, subjects, papers, entries, idx,
                   fpapers, requests, bozo, html_content, error>>

\* open() or write() raises OSError: the file is untouched when open() failed
\* and left empty when open() truncated it and the write failed
WriteReportFails ==
    /\ pc = "write"
    /\ report' \in {report, <<>>}
    /\ pc' = "aborted"
    /\ error' = "OSError"
    /\ UNCHANGED <<publication_date, categories, subjects, papers, entries, idx,
                   fpapers, requests, bozo, html_content>>

Next ==
    \/ ArxivSkipped
    \/ ArxivParse
    \/ ArxivParseBozo
    \/ ArxivParseRaises
    \/ ArxivEntry
    \/ ArxivReturn
    \/ BiorxivSkipped
    \/ BiorxivParse
    \/ BiorxivParseBozo
    \/ BiorxivParseRaises
    \/ BiorxivEntry
    \/ BiorxivReturn
    \/ SortPapers
    \/ RemoveDuplicants
    \/ GenerateHtml
    \/ WriteReport
    \/ WriteReportFails

Spec == Init /\ [][Next]_vars

----------------------------------------------------------------------------
\* Vocabulary of the properties

\* the date main asked the fetchers for
RequestedDate == CHOOSE d \in Today : strftime(d) = publication_date

\* the ways a day or month number may be written in an accepted date text
DecimalForms(n) == {zfill(n, 2)} \cup (IF n < 10 THEN {<<DigitChar(n)>>} ELSE {})

\* the texts that denote date d
TextsOf(d) ==
    { zfill(d.year, 4) \o <<"-">> \o m \o <<"-">> \o dd :
        m \in DecimalForms(d.month), dd \in DecimalForms(d.day) }

\* the part of a timestamp before its time of day
DatePortion(updated) ==
    LET n == CHOOSE n \in 0..Len(updated) :
                /\ \A k \in 1..n : updated[k] # "T"
                /\ n = Len(updated) \/ updated[n + 1] = "T"
    IN  SubSeq(updated, 1, n)

InFetcherLoop == pc \in {"arxiv_loop", "biorxiv_loop"}

\* the entries the running loop has gone past, and those among them dated
\* the requested date
Processed == SubSeq(entries, 1, idx - 1)
OnRequestedDate(entry) == DatePortion(entry.updated) \in TextsOf(RequestedDate)
KeptEntries == SelectSeq(Processed, OnRequestedDate)

Range(seq) == { seq[k] : k \in 1..Len(seq) }

Count(x, seq) == Cardinality({ k \in 1..Len(seq) : seq[k] = x })

AllKeys == {"updated", "title", "authors", "summary", "link"}
MissingField(entry) == DOMAIN entry # AllKeys

\* t is s without its leading and trailing whitespace
IsTrimOf(t, s) ==
    /\ t = <<>> \/ (t[1] \notin Whitespace /\ t[Len(t)] \notin Whitespace)
    /\ \E a \in 0..Len(s) :
          /\ a + Len(t) <= Len(s)
          /\ SubSeq(s, a + 1, a + Len(t)) = t
          /\ \A k \in 1..a : s[k] \in Whitespace
          /\ \A k \in (a + Len(t) + 1)..Len(s) : s[k] \in Whitespace

\* text is the names of `authors`, in order, with ", " between neighbours
IsCommaJoined(text, authors) ==
    \E cut \in [0..Len(authors) -> 0..Len(text)] :
         /\ cut[0] = 0
         /\ cut[Len(authors)] = Len(text)
         /\ \A k \in 1..Len(authors) :
               LET from == cut[k - 1] + (IF k = 1 THEN 1 ELSE 3)
               IN  /\ SubSeq(text, from, cut[k]) = authors[k].name
                   /\ k > 1 => SubSeq(text, cut[k - 1] + 1, cut[k - 1] + 2) = <<",", " ">>

\* The rendered document taken apart at the pieces of the template
TemplatePieces ==
    {Head_html, H1_open, H1_close, Block_open, Href_close, Title_close,
     Dates_close, Authors_close, Block_close, Closing_html}

Skeleton(doc) == SelectSeq(doc, LAMBDA x : x \in TemplatePieces)

PiecePositions(doc) ==
    SelectSeq([k \in 1..Len(doc) |-> k], LAMBDA k : doc[k] \in TemplatePieces)

\* the text between the j-th template piece and the next one
Field(doc, j) ==
    LET pos == PiecePositions(doc)
    IN  SubSeq(doc, pos[j] + 1, pos[j + 1] - 1)

BlockSkeleton ==
    <<Block_open, Href_close, Title_close, Dates_close, Authors_close, Block_close>>

RECURSIVE Repeat(_, _)
Repeat(seq, n) == IF n = 0 THEN <<>> ELSE seq \o Repeat(seq, n - 1)

Subtitle == join(CommaSpace, categories \o subjects)

Rendered == pc \in {"write", "done"}

StageRank(p) ==
    CASE p \in {"arxiv", "arxiv_loop"} -> 1
      [] p \in {"biorxiv", "biorxiv_loop"} -> 2
      [] p \in {"sort", "dedup"} -> 3
      [] p = "render" -> 4
      [] p = "write" -> 5
      [] p = "done" -> 6
      [] p = "aborted" -> 7

----------------------------------------------------------------------------
\* Properties

\* C1: while a fetcher runs, and so when it returns, its list holds exactly the
\* entries gone past whose `updated` date portion denotes the requested date,
\* in feed order, and every record in it carries the requested date.
C1_FetchKeepsExactlyTargetDate ==
    InFetcherLoop =>
        /\ Len(fpapers) = Len(KeptEntries)
        /\ \A k \in 1..Len(fpapers) :
              /\ fpapers[k].datetime = RequestedDate
              /\ fpapers[k].url = KeptEntries[k].link

\* C1 witness: a fetcher is about to return from a feed of two entries of
\* which it kept one and filtered the other out.
C1_Witness ==
    /\ InFetcherLoop
    /\ idx > Len(entries)
    /\ Len(entries) = 2
    /\ Len(fpapers) = 1
    /\ fpapers[1].url = entries[2].link

\* the dates of a list are in ascending order
SortedByDate(list) ==
    \A k \in 1..(Len(list) - 1) : ~DateLess(list[k + 1].datetime, list[k].datetime)

\* out holds the records of in, and those of any one date in the order in has them
SameOrderPerDate(out, in) ==
    /\ Len(out) = Len(in)
    /\ \A r \in Range(in) \cup Range(out) :
          SelectSeq(out, LAMBDA x : x.datetime = r.datetime)
            = SelectSeq(in, LAMBDA x : x.datetime = r.datetime)

NoTitleTwice(list) ==
    \A j, k \in 1..Len(list) : list[j].title = list[k].title => j = k

\* C2: the aggregation in main appends each fetcher's list to `papers` in call
\* order, the sort leaves `papers` sorted by date with equal dates in input
\* order, and for lists that share no title the duplicate removal hands the
\* sorted list on as it is (so a record "A" fetched before a record "B" of a
\* date not earlier is rendered before it).
C2_AggregationSortedStable ==
    [][ /\ (InFetcherLoop /\ pc' \in {"biorxiv", "sort"}) => papers' = papers \o fpapers
        /\ pc = "sort" => (SortedByDate(papers') /\ SameOrderPerDate(papers', papers))
        /\ (pc = "dedup" /\ NoTitleTwice(papers)) => papers' = papers
      ]_vars

C4_OneBlockPerRecordInOrder ==
    Rendered =>
        /\ Skeleton(html_content)
             = <<Head_html, H1_open, H1_close>>
               \o Repeat(BlockSkeleton, Len(papers)) \o <<Closing_html>>
        /\ html_content[1] = Head_html
        /\ html_content[Len(html_content)] = Closing_html
        /\ Field(html_content, 1) = <<>>
        /\ Field(html_content, 2) = Subtitle
        /\ \A k \in 1..Len(papers) :
              /\ Field(html_content, 6 * k - 3) = <<>>
              /\ Field(html_content, 6 * k - 2) = papers[k].url
        /\ Field(html_content, 6 * Len(papers) + 3) = <<>>

\* C4 witness: a report of two different records has been rendered.
C4_Witness ==
    /\ pc = "done"
    /\ Len(papers) = 2
    /\ papers[1].url # papers[2].url

\* C5: an empty category (subject) list means no request to that source, and
\* no record in `papers` comes from a fetch with an empty identifier; with
\* both lists empty `papers` stays empty.
C5_EmptyListNoRequest ==
    /\ categories = <<>> => \A k \in 1..Len(requests) : requests[k][1] # ArxivBase
    /\ subjects = <<>> => \A k \in 1..Len(requests) : requests[k][1] # BiorxivBase
    /\ categories = <<>> =>
          /\ \A k \in 1..Len(papers) : papers[k].category = PlusJoin(subjects)
          /\ pc = "biorxiv" => papers = <<>>
    /\ subjects = <<>> =>
          \A k \in 1..Len(papers) : papers[k].category = PlusJoin(categories)
    /\ \A k \in 1..Len(papers) : papers[k].category # <<>>
    /\ (categories = <<>> /\ subjects = <<>>) => (papers = <<>> /\ requests = <<>>)

\* C5 witness: a run with no arXiv categories finished with records from
\* bioRxiv, having made one request.
C5_Witness ==
    /\ pc = "done"
    /\ categories = <<>>
    /\ Len(papers) > 0
    /\ Len(requests) = 1

\* C6: the stages run in the order arXiv, bioRxiv, sort/deduplicate, render,
\* write; a stage starts only when the one before has completed, none runs
\* twice, and report.html is written only from the complete document.
C6_StagesInOrder ==
    [][ /\ StageRank(pc') >= StageRank(pc)
        /\ (StageRank(pc') > StageRank(pc) /\ pc' # "aborted") =>
              /\ StageRank(pc') = StageRank(pc) + 1
              /\ pc \in {"arxiv", "biorxiv"} => requests' = requests
              /\ InFetcherLoop => idx > Len(entries)
              /\ pc # "sort"
        /\ requests' # requests =>
              /\ pc \in {"arxiv", "biorxiv"}
              /\ Len(requests') = Len(requests) + 1
              /\ requests'[Len(requests')][1] = (IF pc = "arxiv" THEN ArxivBase ELSE BiorxivBase)
              /\ \A k \in 1..Len(requests) : requests[k] # requests'[Len(requests')]
        /\ papers' # papers => StageRank(pc) \in {1, 2, 3}
        /\ html_content' # html_content => (pc = "render" /\ pc' = "write")
        /\ report' # report => pc = "write"
        /\ pc' = "done" =>
              /\ pc = "write"
              /\ report' = html_content
              /\ html_content[1] = Head_html
              /\ html_content[Len(html_content)] = Closing_html
      ]_vars

\* C6 witness: a run that fetched from both sources has written its report.
C6_Witness ==
    /\ pc = "done"
    /\ Len(requests) = 2
    /\ Len(papers) > 0
    /\ report = html_content

\* C7: any failure in a stage aborts the run: once a retrieval has failed, a
\* date has not parsed, or an exception was raised in a fetch, no later stage
\* runs and report.html keeps the content it had.
C7_FailureAborts ==
    /\ error \in {"FetchError", "ValueError", "AttributeError"} =>
          (pc = "aborted" /\ html_content = <<>> /\ report = OldReport)
    /\ "arxiv" \in bozo =>
          (pc \in {"arxiv_loop", "aborted"} /\ html_content = <<>> /\ report = OldReport)
    /\ "biorxiv" \in bozo =>
          (pc \in {"biorxiv_loop", "aborted"} /\ html_content = <<>> /\ report = OldReport)

\* C8: within a fetch, entries missing a field are treated alike: it never
\* happens that the loop went past one of them without a word and another
\* one ended the fetch with an exception.
C8_MissingFieldHandledAlike ==
    ~ \E j, k \in 1..Len(entries) :
         /\ MissingField(entries[j])
         /\ MissingField(entries[k])
         /\ j < idx
         /\ k = idx /\ pc = "aborted" /\ error = "AttributeError"

\* C9: every text generate_html was given stands in the document character for
\* character: the subtitle, and each record's URL, title, authors and abstract.
C9_TextPassesVerbatim ==
    Rendered =>
        /\ Field(html_content, 2) = Subtitle
        /\ \A k \in 1..Len(papers) :
              /\ Field(html_content, 6 * k - 2) = papers[k].url
              /\ Field(html_content, 6 * k - 1) = papers[k].title
              /\ Field(html_content, 6 * k + 1) = papers[k].authors
              /\ Field(html_content, 6 * k + 2) = papers[k].abstract

\* C9 witness: a rendered record has "<" and "&" in its title.
C9_Witness ==
    /\ Rendered
    /\ \E k \in 1..Len(papers) : {"<", "&"} \subseteq Range(papers[k].title)

\* C10: a kept entry's title is trimmed and its author names joined by ", "
\* by both fetchers; the abstract is trimmed by the bioRxiv fetcher and is the
\* feed's summary unchanged in the arXiv fetcher.
C10_NormalisationPerSource ==
    InFetcherLoop =>
        \A k \in 1..Len(fpapers) :
            /\ IsTrimOf(fpapers[k].title, KeptEntries[k].title)
            /\ IsCommaJoined(fpapers[k].authors, KeptEntries[k].authors)
            /\ pc = "arxiv_loop" => fpapers[k].abstract = KeptEntries[k].summary
            /\ pc = "biorxiv_loop" => IsTrimOf(fpapers[k].abstract, KeptEntries[k].summary)

\* C10 witness: the bioRxiv fetcher has kept an entry whose summary it had to
\* trim, after the arXiv fetcher kept one whose summary has whitespace at both
\* ends and two authors.
C10_Witness ==
    /\ pc = "biorxiv_loop"
    /\ \E k \in 1..Len(fpapers) : fpapers[k].abstract # KeptEntries[k].summary
    /\ \E k \in 1..Len(papers) :
          /\ papers[k].abstract # strip(papers[k].abstract)
          /\ Len(papers[k].authors) > 1

====
